---- MODULE Spec2Model ----
(***************************************************************************)
(* Model of server/storage.ts: the volatile store MemStorage and the       *)
(* file-backed store FileStorage (in-memory Map mirrored to users.json).   *)
(*                                                                         *)
(* A FileStorage call is a chain of steps separated by its awaits:         *)
(*   Call        the caller invokes the method; it suspends at waitReady   *)
(*   Resume      ready has settled: the synchronous body up to the next    *)
(*               await (in-memory read or write, persist's array copy,     *)
(*               the fs.mkdir request)                                     *)
(*   MkdirDone   fs.mkdir settles; on success fs.writeFile is requested    *)
(*   WriteFileDone  fs.writeFile settles (the file changes on disk)        *)
(*   Return      the continuation after `await this.persist()` returns     *)
(* The load started by the constructor is the chain LoadReadFileDone,      *)
(* LoadMkdirDone, LoadWriteFileDone.  MemStorage methods contain no await  *)
(* and are one step each.                                                  *)
(*                                                                         *)
(* Specifications:                                                         *)
(*   Spec      one store (either kind), overlapping calls, disk faults     *)
(*   FairSpec  Spec with the event loop's fairness                         *)
(*   PairSpec  a MemStorage and a FileStorage given the same operations    *)
(*   HeapSpec  a FileStorage with its User objects told apart              *)
(*   RegSpec   POST /api/register requests on a FileStorage                *)
(***************************************************************************)
EXTENDS Integers, Sequences, FiniteSets, TLC

\* ------------------------------------------------------------------ bounds
MaxProcs == 2       \* calls in flight at the same time
MaxCalls == 2       \* calls issued in one run
MaxIds == 2         \* ids drawn from randomUUID in one run
MaxFaults == 1      \* disk faults injected in one run
MaxOps == 4         \* operations in one run of the sequential specifications

\* ------------------------------------------------------------------ values
Procs == 1..MaxProcs
Names == {"alice", "bob"}
Secrets == {"h1", "h2"}
Fields == {"id", "username", "password"}

\* randomUUID(): the n-th identifier drawn; draws never repeat.
UuidPool == <<"u1", "u2", "u3", "u4", "u5", "u6">>
RandomUUIDRepeats(n) == UuidPool[1]
randomUUID(n) == UuidPool[n]

OldId == "u0"       \* the id of records already in users.json at start
GenIds == {randomUUID(n) : n \in 1..MaxIds}
Ids == {OldId} \cup GenIds
\* The ids callers pass to getUser, updateUser and deleteUser.
Targets == {OldId, randomUUID(1)}

\* A User object: a function from its keys to strings.
Users == [Fields -> Ids \cup Names \cup Secrets]
NoFields == [f \in {} |-> ""]

\* InsertUser values handed to createUser.
InsertUsers == {[username |-> n, password |-> "h1"] : n \in Names}

\* Objects handed to updateUser as patch.  The parameter is typed
\* Partial<InsertUser>; the merged object is cast `as User`, and nothing
\* checks at run time which keys the object carries, so a patch may carry id.
\* A patch is built from one optional value per key ("" for a key the object
\* does not carry).
PatchOf(i, n, s) ==
    [f \in {g \in Fields : (g = "id" /\ i # "") \/ (g = "username" /\ n # "")
                              \/ (g = "password" /\ s # "")} |->
        IF f = "id" THEN i ELSE IF f = "username" THEN n ELSE s]
Patches ==
    {PatchOf(i, n, s) : i \in {OldId, ""}, n \in {"bob", ""}, s \in {"h2", ""}}

\* ------------------------------------------------------- object spread
\* { ...a, ...b }: the keys of both, b's value where b has the key.
Spread(a, b) ==
    [f \in DOMAIN a \cup DOMAIN b |-> IF f \in DOMAIN b THEN b[f] ELSE a[f]]

\* ------------------------------------------------------- Map<string, User>
\* A JavaScript Map: entries <<key, value>> in insertion order, keys unique.
EmptyMap == <<>>
MapHas(m, k) == \E i \in 1..Len(m) : m[i][1] = k
MapIndex(m, k) == CHOOSE i \in 1..Len(m) : m[i][1] = k
MapGet(m, k) == m[MapIndex(m, k)][2]
MapSetAppends(m, k, v) == Append(m, <<k, v>>)
MapSet(m, k, v) ==
    IF MapHas(m, k) THEN [m EXCEPT ![MapIndex(m, k)] = <<k, v>>]
    ELSE Append(m, <<k, v>>)
MapDelete(m, k) == SelectSeq(m, LAMBDA e : e[1] # k)
MapValues(m) == [i \in 1..Len(m) |-> m[i][2]]
MapKeys(m) == {m[i][1] : i \in 1..Len(m)}

\* new Map(arr.map((u) => [u.id, u])): entries set one after another.
MapFromUsersKeepsAll(arr) == [i \in 1..Len(arr) |-> <<arr[i].id, arr[i]>>]
RECURSIVE MapFromUsers(_)
MapFromUsers(arr) ==
    IF arr = <<>> THEN EmptyMap
    ELSE LET n == Len(arr)
         IN  MapSet(MapFromUsers(SubSeq(arr, 1, n - 1)), arr[n].id, arr[n])

\* Array.prototype.find: the first element satisfying the test, in a list of
\* zero or one elements.
FindTestsFirstOnly(arr, name) ==
    IF arr # <<>> /\ arr[1].username = name THEN <<arr[1]>> ELSE <<>>
FindByUsername(arr, name) ==
    LET hits == SelectSeq(arr, LAMBDA u : u.username = name)
    IN  IF hits = <<>> THEN <<>> ELSE <<hits[1]>>

SeqToSet(s) == {s[i] : i \in 1..Len(s)}

\* ------------------------------------------------------- users.json
\* The file: missing, present with text that cannot be parsed, or present
\* with the text of an array of User objects.
Absent == [kind |-> "absent", arr |-> <<>>]
Corrupt == [kind |-> "corrupt", arr |-> <<>>]
Json(arr) == [kind |-> "json", arr |-> arr]

Old1 == [id |-> OldId, username |-> "alice", password |-> "h1"]
Old2 == [id |-> OldId, username |-> "bob", password |-> "h2"]
InitFiles == {Absent, Corrupt, Json(<<Old1>>), Json(<<Old1, Old2>>)}

\* ------------------------------------------------------- results of calls
None == [kind |-> "none", val |-> <<>>]
Undefined == [kind |-> "undefined", val |-> <<>>]
RetUser(u) == [kind |-> "user", val |-> <<u>>]
RetList(arr) == [kind |-> "list", val |-> arr]
RetBool(b) == [kind |-> IF b THEN "true" ELSE "false", val |-> <<>>]
Rejected == [kind |-> "error", val |-> <<>>]
OptUser(l) == IF l = <<>> THEN Undefined ELSE RetUser(l[1])

Mutators == {"createUser", "updateUser", "deleteUser"}
Readers == {"getUser", "getUserByUsername", "listUsers"}
NoArg == [id |-> "", data |-> NoFields]
\* A settled call: its method, what it resolved with (or that it rejected),
\* and whether it overlapped another mutating call.
Settled(o, v, ov) == [op |-> o, kind |-> v.kind, val |-> v.val, overl |-> ov]

VARIABLES
    impl,       \* what is constructed: "mem" | "file" | "both" (one of each) |
                \* "heap" (a FileStorage, object level)
    users,      \* FileStorage.users
    file,       \* contents of filePath on disk
    file0,      \* contents of filePath when the store was constructed
    ready,      \* FileStorage.ready: "pending" | "resolved"
    loadPc,     \* position of load(): "readFile" | "mkdir" | "writeFile" | "done"
    loadArr,    \* persist's arr inside load()
    logged,     \* console.error of the constructor's catch has run
    pc,         \* per call: "idle" | "waitReady" | "createWait" | "mkdir" |
                \* "writeFile" | "written"
    op,         \* per call: the method
    arg,        \* per call: [id, data], until the body has used them
    arr,        \* per call: persist's arr
    ret,        \* per call: the value held to be returned after persist()
    nextId,     \* number of the next randomUUID draw
    nCalls,     \* calls issued so far
    faults,     \* disk faults so far
    mem,        \* MemStorage.users
    result,     \* how the latest call settled: method, value or error
    ref,        \* reference model: a function from ids to records
    overl,      \* per call: it overlapped another mutating call
    changed,    \* per call: file and memory agreed before its mutation, which changed the set of records
    lastDeleted, \* id of the deleteUser that was the latest call to run its body, else ""
    memNextId,  \* number of the next randomUUID draw of the MemStorage
    memCall,    \* the latest MemStorage call: its method and arguments
    heap,       \* object level: the User objects allocated so far
    hmap,       \* object level: FileStorage.users as a Map from id to object
    held,       \* object level: the array listUsers() returned last (objects)
    heldVal     \* object level: the field values of its elements when it was returned

heapVars == <<heap, hmap, held, heldVal>>
loadVars == <<ready, loadPc, loadArr, logged>>
callVars == <<pc, op, arg, arr, ret, overl, changed>>
memVars == <<mem, memNextId, memCall, heapVars>>

vars == <<impl, users, file, file0, ready, loadPc, loadArr, logged, pc, op, arg, arr,
          ret, nextId, nCalls, faults, result, ref, overl, changed,
          lastDeleted, memVars>>


\* ------------------------------------------------------- reference model
\* A plain map from id to record: create inserts a fresh id, update merges
\* into an existing id or does nothing, delete removes an existing id or
\* does nothing.
EmptyRef == [k \in {} |-> Old1]
RefMerge(u, patch) ==
    [f \in DOMAIN u \cup DOMAIN patch |->
        IF f \in DOMAIN patch THEN patch[f] ELSE u[f]]
RefCreate(r, id, fields) ==
    [k \in DOMAIN r \cup {id} |->
        IF k = id THEN RefMerge(fields, [id |-> id]) ELSE r[k]]
RefUpdate(r, id, patch) ==
    IF id \in DOMAIN r THEN [r EXCEPT ![id] = RefMerge(r[id], patch)] ELSE r
RefDelete(r, id) == [k \in DOMAIN r \ {id} |-> r[k]]
RefRange(r) == {r[k] : k \in DOMAIN r}
RefFromFile(a) ==
    [k \in {a[i].id : i \in 1..Len(a)} |->
        a[CHOOSE i \in 1..Len(a) :
            /\ a[i].id = k
            /\ \A j \in 1..Len(a) : a[j].id = k => j <= i]]

\* ------------------------------------------------------- pieces of the code
\* persist, line 91: const arr = Array.from(this.users.values())
SnapshotOfNewest(m) == IF m = <<>> THEN <<>> ELSE <<m[Len(m)][2]>>
SnapshotOf(m) == MapValues(m)

\* persist, line 94: the text written is JSON.stringify(arr, null, 2); a file
\* holding it parses back to arr.
StringifiesMap(a) == Corrupt
WrittenText(a) == Json(a)

\* waitReady: `await this.ready` continues once the promise has resolved.
WaitReadyNoWait(r) == TRUE
WaitReadyDone(r) == r = "resolved"

\* constructor: this.load().catch(...) resolves after logging the error.
ReadyRethrows == "rejected"
ReadyAfterLoadError == "resolved"

\* load(): an error other than ENOENT is thrown on (line 86); nothing is
\* written.
FileResetOnLoadError(f) == Json(<<>>)
FileAfterLoadError(f) == f

\* `await this.persist()` with persist rejecting: the call rejects instead of
\* returning the value v it held.
PersistErrorSwallowed(v) == v
PersistError(v) == Rejected

\* createUser: { ...insertUser, id }
NewUser(insertUser, id) == Spread(insertUser, [id |-> id])
\* updateUser: { ...existing, ...patch }
MergedPatchOnly(existing, patch) == patch
Merged(existing, patch) == Spread(existing, patch)

\* updateUser's `if (!existing) return undefined`
UpdateUpserts(m, id) == TRUE
UpdateFinds(m, id) == MapHas(m, id)

\* deleteUser's Map.delete: the new map and whether a key was removed
DeleteKeepsEntry(m, k) == m
DeleteFrom(m, k) == MapDelete(m, k)

InFlight(q) == pc[q] # "idle"
ValueSet(m) == SeqToSet(MapValues(m))
FileInSync(f, m) == f.kind = "json" /\ SeqToSet(f.arr) = ValueSet(m)

\* ------------------------------------------------------- initial state
\* The state after construction of store(s) i, with f on disk and n disk
\* faults already spent.
Start(i, f, n) ==
    /\ impl = i
    /\ users = EmptyMap
    /\ file = f
    /\ file0 = f
    /\ ready = IF i = "mem" THEN "resolved" ELSE "pending"
    /\ loadPc = IF i = "mem" THEN "done" ELSE "readFile"
    /\ loadArr = <<>>
    /\ logged = FALSE
    /\ pc = [p \in Procs |-> "idle"]
    /\ op = [p \in Procs |-> ""]
    /\ arg = [p \in Procs |-> NoArg]
    /\ arr = [p \in Procs |-> <<>>]
    /\ ret = [p \in Procs |-> None]
    /\ nextId = 1
    /\ nCalls = 0
    /\ faults = n
    /\ mem = EmptyMap
    /\ result = Settled("", None, FALSE)
    /\ ref = EmptyRef
    /\ overl = [p \in Procs |-> FALSE]
    /\ changed = [p \in Procs |-> FALSE]
    /\ lastDeleted = ""
    /\ memNextId = 1
    /\ memCall = [op |-> "", arg |-> NoArg]
    /\ heap = <<>>
    /\ hmap = EmptyMap
    /\ held = <<>>
    /\ heldVal = <<>>

Init ==
    \/ Start("mem", Absent, 0)
    \/ \E f \in InitFiles : Start("file", f, 0)

\* ------------------------------------------------------- FileStorage.load
\* The error leaves load(): the constructor's catch logs it and ready settles.
LoadFails ==
    /\ logged' = TRUE
    /\ ready' = ReadyAfterLoadError
    /\ loadPc' = "done"

\* fs.readFile settles.
LoadReadFileDone ==
    /\ loadPc = "readFile"
    /\ \/ /\ file.kind = "json"
          /\ users' = MapFromUsers(file.arr)
          /\ ref' = RefFromFile(file.arr)
          /\ ready' = "resolved"
          /\ loadPc' = "done"
          /\ UNCHANGED <<file, loadArr, logged, faults>>
       \/ /\ file.kind = "json"
          /\ faults < MaxFaults
          /\ faults' = faults + 1
          /\ LoadFails
          /\ file' = FileAfterLoadError(file)
          /\ UNCHANGED <<users, ref, loadArr>>
       \/ /\ file.kind = "corrupt"
          /\ LoadFails
          /\ file' = FileAfterLoadError(file)
          /\ UNCHANGED <<users, ref, loadArr, faults>>
       \/ /\ file.kind = "absent"
          /\ loadArr' = SnapshotOf(users)
          /\ loadPc' = "mkdir"
          /\ UNCHANGED <<file, users, ref, ready, logged, faults>>
    /\ UNCHANGED <<impl, file0, callVars, nextId, nCalls, memVars, result,
                   lastDeleted>>

\* fs.mkdir of the bootstrap persist settles.
LoadMkdirDone ==
    /\ loadPc = "mkdir"
    /\ \/ /\ loadPc' = "writeFile"
          /\ UNCHANGED <<ready, logged, faults>>
       \/ /\ faults < MaxFaults
          /\ faults' = faults + 1
          /\ LoadFails
    /\ UNCHANGED <<impl, file0, users, file, loadArr, callVars, nextId, nCalls,
                   memVars, result, ref, lastDeleted>>

\* fs.writeFile of the bootstrap persist settles; then this.users = new Map().
LoadWriteFileDone ==
    /\ loadPc = "writeFile"
    /\ \/ /\ file' = WrittenText(loadArr)
          /\ users' = EmptyMap
          /\ ready' = "resolved"
          /\ loadPc' = "done"
          /\ UNCHANGED <<logged, faults>>
       \/ /\ faults < MaxFaults
          /\ faults' = faults + 1
          /\ file' \in {file, Corrupt}
          /\ LoadFails
          /\ UNCHANGED users
    /\ UNCHANGED <<impl, file0, loadArr, callVars, nextId, nCalls, memVars, result,
                   ref, lastDeleted>>

\* ------------------------------------------------------- FileStorage calls
\* Arguments a caller may pass to each method.
Args(o) ==
    CASE o = "getUser" -> {[id |-> i, data |-> NoFields] : i \in Targets}
      [] o = "getUserByUsername" ->
            {[id |-> "", data |-> [username |-> n]] : n \in Names}
      [] o = "createUser" -> {[id |-> "", data |-> u] : u \in InsertUsers}
      [] o = "updateUser" ->
            {[id |-> i, data |-> d] : i \in Targets, d \in Patches}
      [] o = "deleteUser" -> {[id |-> i, data |-> NoFields] : i \in Targets}
      [] o = "listUsers" -> {NoArg}

\* No continuation of an await on the settled ready promise is queued.  Such
\* a continuation is a microtask: Node runs it before the event loop delivers
\* the next I/O completion or the next request.
Quiet ==
    \A q \in Procs : ~(pc[q] \in {"waitReady", "createWait"} /\ ready = "resolved")

\* randomUUID draws left for one more createUser (a bound of the model).
IdsLeft ==
    nextId + Cardinality({q \in Procs : /\ pc[q] \in {"waitReady", "createWait"}
                                         /\ op[q] \in {"createUser", "register"}})
        <= MaxIds

\* Calls are accepted: up to MaxCalls on a FileStorage alone; with one store
\* of each kind, the operation the MemStorage was given last.
FileTurn(o, a) ==
    \/ impl = "file" /\ nCalls < MaxCalls
    \/ /\ impl = "both"
       /\ nCalls % 2 = 1
       /\ o = memCall.op
       /\ a = memCall.arg

\* The caller invokes method o; the call suspends at `await this.waitReady()`.
Call(p, o, a) ==
    /\ FileTurn(o, a)
    /\ Quiet
    /\ ~InFlight(p)
    /\ \A q \in Procs : q < p => InFlight(q)
    /\ o = "createUser" => IdsLeft
    /\ nCalls' = nCalls + 1
    /\ pc' = [pc EXCEPT ![p] = "waitReady"]
    /\ op' = [op EXCEPT ![p] = o]
    /\ arg' = [arg EXCEPT ![p] = a]
    /\ LET others == {q \in Procs \ {p} : InFlight(q) /\ op[q] \in Mutators}
       IN  overl' = [q \in Procs |->
                IF q = p THEN o \in Mutators /\ others # {}
                ELSE IF o \in Mutators /\ q \in others THEN TRUE
                ELSE overl[q]]
    /\ UNCHANGED <<impl, file0, users, file, loadVars, arr, ret, changed, nextId,
                   faults, memVars, result, ref, lastDeleted>>

\* The body of method o continues after `await this.waitReady()`.
Resumes(p, o) ==
    /\ pc[p] = "waitReady"
    /\ op[p] = o
    /\ WaitReadyDone(ready)

\* The call settles with v (a value, or Rejected); its frame is gone.
Settle(p, v) ==
    /\ pc' = [pc EXCEPT ![p] = "idle"]
    /\ result' = Settled(op[p], v, overl[p])
    /\ op' = [op EXCEPT ![p] = ""]
    /\ arg' = [arg EXCEPT ![p] = NoArg]
    /\ arr' = [arr EXCEPT ![p] = <<>>]
    /\ ret' = [ret EXCEPT ![p] = None]
    /\ overl' = [overl EXCEPT ![p] = FALSE]
    /\ changed' = [changed EXCEPT ![p] = FALSE]

\* A body without persist() returns v.
Answer(p, v) ==
    /\ Settle(p, v)
    /\ UNCHANGED <<impl, file0, file, loadVars, nCalls, faults, memVars>>

\* The body calls persist(): arr is copied from the Map and fs.mkdir is
\* requested; v is the value the call will return.
Persists(p, v) ==
    /\ pc' = [pc EXCEPT ![p] = "mkdir"]
    /\ arr' = [arr EXCEPT ![p] = SnapshotOf(users')]
    /\ ret' = [ret EXCEPT ![p] = v]
    /\ arg' = [arg EXCEPT ![p] = NoArg]
    /\ changed' = [changed EXCEPT ![p] =
            FileInSync(file, users) /\ ValueSet(users') # ValueSet(users)]
    /\ UNCHANGED <<impl, file0, file, loadVars, op, overl, nCalls, faults, memVars,
                   result>>

GetUser(p) ==
    /\ Resumes(p, "getUser")
    /\ Answer(p, IF MapHas(users, arg[p].id)
                 THEN RetUser(MapGet(users, arg[p].id)) ELSE Undefined)
    /\ lastDeleted' = ""
    /\ UNCHANGED <<users, ref, nextId>>

GetUserByUsername(p) ==
    /\ Resumes(p, "getUserByUsername")
    /\ Answer(p, OptUser(FindByUsername(MapValues(users), arg[p].data.username)))
    /\ lastDeleted' = ""
    /\ UNCHANGED <<users, ref, nextId>>

ListUsers(p) ==
    /\ Resumes(p, "listUsers")
    /\ Answer(p, RetList(MapValues(users)))
    /\ lastDeleted' = ""
    /\ UNCHANGED <<users, ref, nextId>>

CreateUser(p) ==
    /\ Resumes(p, "createUser")
    /\ LET id == randomUUID(nextId)
           user == NewUser(arg[p].data, id)
       IN  /\ users' = MapSet(users, id, user)
           /\ ref' = RefCreate(ref, id, arg[p].data)
           /\ Persists(p, RetUser(user))
    /\ nextId' = nextId + 1
    /\ lastDeleted' = ""

UpdateUser(p) ==
    /\ Resumes(p, "updateUser")
    /\ ref' = RefUpdate(ref, arg[p].id, arg[p].data)
    /\ IF UpdateFinds(users, arg[p].id)
       THEN LET existing == IF MapHas(users, arg[p].id)
                            THEN MapGet(users, arg[p].id) ELSE NoFields
                updated == Merged(existing, arg[p].data)
            IN  /\ users' = MapSet(users, arg[p].id, updated)
                /\ Persists(p, RetUser(updated))
       ELSE /\ users' = users
            /\ Answer(p, Undefined)
    /\ lastDeleted' = ""
    /\ UNCHANGED nextId

DeleteUser(p) ==
    /\ Resumes(p, "deleteUser")
    /\ ref' = RefDelete(ref, arg[p].id)
    /\ users' = DeleteFrom(users, arg[p].id)
    /\ IF MapHas(users, arg[p].id)
       THEN Persists(p, RetBool(TRUE))
       ELSE Answer(p, RetBool(FALSE))
    /\ lastDeleted' = arg[p].id
    /\ UNCHANGED nextId

\* fs.mkdir settles; on success fs.writeFile(JSON.stringify(arr)) is requested.
MkdirDone(p) ==
    /\ pc[p] = "mkdir"
    /\ Quiet
    /\ \/ /\ pc' = [pc EXCEPT ![p] = "writeFile"]
          /\ UNCHANGED <<op, arg, arr, ret, overl, changed, result, faults>>
       \/ /\ faults < MaxFaults
          /\ faults' = faults + 1
          /\ Settle(p, PersistError(ret[p]))
    /\ UNCHANGED <<impl, file0, users, file, loadVars, nextId, nCalls, memVars, ref,
                   lastDeleted>>

\* fs.writeFile settles: the file holds the text of arr, or the write failed
\* and left the file as it was or cut short.
WriteFileDone(p) ==
    /\ pc[p] = "writeFile"
    /\ Quiet
    /\ \/ /\ file' = WrittenText(arr[p])
          /\ pc' = [pc EXCEPT ![p] = "written"]
          /\ UNCHANGED <<op, arg, arr, ret, overl, changed, result, faults>>
       \/ /\ faults < MaxFaults
          /\ faults' = faults + 1
          /\ file' \in {file, Corrupt}
          /\ Settle(p, PersistError(ret[p]))
    /\ UNCHANGED <<impl, file0, users, loadVars, nextId, nCalls, memVars, ref,
                   lastDeleted>>

\* `await this.persist()` is over: the call returns the value it held.
Return(p) ==
    /\ pc[p] = "written"
    /\ Quiet
    /\ Settle(p, ret[p])
    /\ UNCHANGED <<impl, file0, users, file, loadVars, nextId, nCalls, faults, memVars,
                   ref, lastDeleted>>

\* ------------------------------------------------------- POST /api/register
\* The handler on the FileStorage `storage`: one request per slot, from the
\* request to the response.
Conflict == [kind |-> "conflict", val |-> <<>>]
BadRequest == [kind |-> "badRequest", val |-> <<>>]
RetCreated(u) == [kind |-> "created", val |-> <<u>>]

\* req.body: username and password, each possibly missing ("").
Bodies == {[username |-> n, password |-> s] : n \in Names \cup {""}, s \in {"p1", ""}}
\* bcrypt.hashSync(password, 10)
hashSync(password) == IF password = "p1" THEN "h1" ELSE "h2"
\* const { password: _p, ...safe } = user
Safe(user) == [f \in DOMAIN user \ {"password"} |-> user[f]]
\* if (existing) return res.status(409)
RegisterNeverTaken(existing) == FALSE
RegisterTaken(existing) == existing # <<>>

\* The request arrives: 400 on a missing field, else the handler calls
\* getUserByUsername, which suspends at `await this.waitReady()`.
Register(p, body) ==
    /\ impl = "file"
    /\ nCalls < MaxCalls
    /\ Quiet
    /\ ~InFlight(p)
    /\ \A q \in Procs : q < p => InFlight(q)
    /\ IdsLeft
    /\ nCalls' = nCalls + 1
    /\ IF body.username = "" \/ body.password = ""
       THEN /\ result' = Settled("register", BadRequest, FALSE)
            /\ UNCHANGED callVars
       ELSE /\ pc' = [pc EXCEPT ![p] = "waitReady"]
            /\ op' = [op EXCEPT ![p] = "register"]
            /\ arg' = [arg EXCEPT ![p] = [id |-> "", data |-> body]]
            /\ overl' = [q \in Procs |-> InFlight(q) \/ (q = p /\ \E r \in Procs : InFlight(r))]
            /\ UNCHANGED <<arr, ret, changed, result>>
    /\ UNCHANGED <<impl, file0, users, file, loadVars, nextId, faults, memVars, ref,
                   lastDeleted>>

\* getUserByUsername continues and returns; the handler answers 409 or
\* hashes the password and calls createUser, which suspends at
\* `await this.waitReady()`.
RegisterLookup(p) ==
    /\ Resumes(p, "register")
    /\ LET existing == FindByUsername(MapValues(users), arg[p].data.username)
       IN  IF RegisterTaken(existing)
           THEN Settle(p, Conflict)
           ELSE /\ pc' = [pc EXCEPT ![p] = "createWait"]
                /\ arg' = [arg EXCEPT ![p].data.password = hashSync(@)]
                /\ UNCHANGED <<op, arr, ret, overl, changed, result>>
    /\ UNCHANGED <<impl, file0, users, file, loadVars, nextId, nCalls, faults, memVars,
                   ref, lastDeleted>>

\* createUser continues up to persist()'s fs.mkdir.  Continuations queued
\* on the ready promise before this one (calls still at their first
\* waitReady) run first.
RegisterCreate(p) ==
    /\ pc[p] = "createWait"
    /\ WaitReadyDone(ready)
    /\ \A q \in Procs : pc[q] # "waitReady"
    /\ LET id == randomUUID(nextId)
           user == NewUser(arg[p].data, id)
       IN  /\ users' = MapSet(users, id, user)
           /\ ref' = RefCreate(ref, id, arg[p].data)
           /\ Persists(p, RetCreated(Safe(user)))
    /\ nextId' = nextId + 1
    /\ lastDeleted' = ""

\* ------------------------------------------------------- MemStorage calls
\* A MemStorage method has no await: it runs and resolves in one step.  With
\* one store of each kind constructed, an operation is applied to the
\* MemStorage first and then to the FileStorage (see Call).
MemTurn ==
    \/ impl = "mem" /\ nCalls < MaxCalls
    \/ /\ impl = "both"
       /\ nCalls < 2 * MaxOps
       /\ nCalls % 2 = 0
       /\ \A p \in Procs : ~InFlight(p)

MemStep(o, a, v) ==
    /\ MemTurn
    /\ nCalls' = nCalls + 1
    /\ result' = Settled(o, v, FALSE)
    /\ memCall' = [op |-> o, arg |-> a]
    /\ UNCHANGED <<impl, file0, users, file, loadVars, callVars, faults, nextId,
                   heapVars>>

MemGetUser(i) ==
    /\ MemStep("getUser", [id |-> i, data |-> NoFields],
               IF MapHas(mem, i) THEN RetUser(MapGet(mem, i)) ELSE Undefined)
    /\ lastDeleted' = ""
    /\ UNCHANGED <<mem, ref, memNextId>>

MemGetUserByUsername(n) ==
    /\ MemStep("getUserByUsername", [id |-> "", data |-> [username |-> n]],
               OptUser(FindByUsername(MapValues(mem), n)))
    /\ lastDeleted' = ""
    /\ UNCHANGED <<mem, ref, memNextId>>

MemCreateUser(u) ==
    /\ memNextId <= MaxIds
    /\ LET id == randomUUID(memNextId)
           user == NewUser(u, id)
       IN  /\ mem' = MapSet(mem, id, user)
           /\ ref' = RefCreate(ref, id, u)
           /\ MemStep("createUser", [id |-> "", data |-> u], RetUser(user))
    /\ memNextId' = memNextId + 1
    /\ lastDeleted' = ""

MemUpdateUser(i, patch) ==
    /\ ref' = RefUpdate(ref, i, patch)
    /\ IF UpdateFinds(mem, i)
       THEN LET existing == IF MapHas(mem, i) THEN MapGet(mem, i) ELSE NoFields
                updated == Merged(existing, patch)
            IN  /\ mem' = MapSet(mem, i, updated)
                /\ MemStep("updateUser", [id |-> i, data |-> patch], RetUser(updated))
       ELSE /\ mem' = mem
            /\ MemStep("updateUser", [id |-> i, data |-> patch], Undefined)
    /\ lastDeleted' = ""
    /\ UNCHANGED memNextId

MemDeleteUser(i) ==
    /\ mem' = DeleteFrom(mem, i)
    /\ ref' = RefDelete(ref, i)
    /\ MemStep("deleteUser", [id |-> i, data |-> NoFields], RetBool(MapHas(mem, i)))
    /\ lastDeleted' = i
    /\ UNCHANGED memNextId

MemListUsers ==
    /\ MemStep("listUsers", NoArg, RetList(MapValues(mem)))
    /\ lastDeleted' = ""
    /\ UNCHANGED <<mem, ref, memNextId>>

\* ------------------------------------------------------- specification
Next ==
    \/ LoadReadFileDone
    \/ LoadMkdirDone
    \/ LoadWriteFileDone
    \/ \E p \in Procs : \E o \in Mutators \cup Readers : \E a \in Args(o) : Call(p, o, a)
    \/ \E p \in Procs : GetUser(p)
    \/ \E p \in Procs : GetUserByUsername(p)
    \/ \E p \in Procs : ListUsers(p)
    \/ \E p \in Procs : CreateUser(p)
    \/ \E p \in Procs : UpdateUser(p)
    \/ \E p \in Procs : DeleteUser(p)
    \/ \E p \in Procs : MkdirDone(p)
    \/ \E p \in Procs : WriteFileDone(p)
    \/ \E p \in Procs : Return(p)
    \/ \E i \in Targets : MemGetUser(i)
    \/ \E n \in Names : MemGetUserByUsername(n)
    \/ \E u \in InsertUsers : MemCreateUser(u)
    \/ \E i \in Targets : \E d \in Patches : MemUpdateUser(i, d)
    \/ \E i \in Targets : MemDeleteUser(i)
    \/ MemListUsers

Spec == Init /\ [][Next]_vars

\* ------------------------------------------------------- fair scheduling
\* The event loop delivers every I/O completion and runs every queued
\* continuation; callers are free never to call.
Fairness ==
    /\ WF_vars(LoadReadFileDone)
    /\ WF_vars(LoadMkdirDone)
    /\ WF_vars(LoadWriteFileDone)
    /\ \A p \in Procs :
        /\ WF_vars(GetUser(p))
        /\ WF_vars(GetUserByUsername(p))
        /\ WF_vars(ListUsers(p))
        /\ WF_vars(CreateUser(p))
        /\ WF_vars(UpdateUser(p))
        /\ WF_vars(DeleteUser(p))
        /\ WF_vars(MkdirDone(p))
        /\ WF_vars(WriteFileDone(p))
        /\ WF_vars(Return(p))

FairSpec == Spec /\ Fairness

\* ------------------------------------------------------- registrations only
RegInit == \E f \in InitFiles : Start("file", f, 0)

RegNext ==
    \/ LoadReadFileDone
    \/ LoadMkdirDone
    \/ LoadWriteFileDone
    \/ \E p \in Procs : \E body \in Bodies : Register(p, body)
    \/ \E p \in Procs : RegisterLookup(p)
    \/ \E p \in Procs : RegisterCreate(p)
    \/ \E p \in Procs : MkdirDone(p)
    \/ \E p \in Procs : WriteFileDone(p)
    \/ \E p \in Procs : Return(p)

RegSpec == RegInit /\ [][RegNext]_vars

\* ------------------------------------------------------- the two stores side by side
\* A MemStorage and a FileStorage on a path with no file, on a disk that does
\* not fail (no fault is left to inject); every operation is applied to the
\* MemStorage and then, with the same arguments, to the FileStorage, whose
\* randomUUID draws are the same.
PairInit == Start("both", Absent, MaxFaults)

PairNext ==
    \/ LoadReadFileDone
    \/ LoadMkdirDone
    \/ LoadWriteFileDone
    \/ \E p \in Procs : \E o \in Mutators \cup Readers : \E a \in Args(o) : Call(p, o, a)
    \/ \E p \in Procs : GetUser(p)
    \/ \E p \in Procs : GetUserByUsername(p)
    \/ \E p \in Procs : ListUsers(p)
    \/ \E p \in Procs : CreateUser(p)
    \/ \E p \in Procs : UpdateUser(p)
    \/ \E p \in Procs : DeleteUser(p)
    \/ \E p \in Procs : MkdirDone(p)
    \/ \E p \in Procs : WriteFileDone(p)
    \/ \E p \in Procs : Return(p)
    \/ \E i \in Targets : MemGetUser(i)
    \/ \E n \in Names : MemGetUserByUsername(n)
    \/ \E u \in InsertUsers : MemCreateUser(u)
    \/ \E i \in Targets : \E d \in Patches : MemUpdateUser(i, d)
    \/ \E i \in Targets : MemDeleteUser(i)
    \/ MemListUsers

PairSpec == PairInit /\ [][PairNext]_vars

\* ------------------------------------------------------- FileStorage, object level
\* The same FileStorage with its User objects told apart: heap[o] holds the
\* fields of object o, the Map and the arrays handed out hold objects.  Calls
\* come one after another on a disk that does not fail, so the steps of a
\* call are taken together.
Deref(h, objs) == [i \in 1..Len(objs) |-> h[objs[i]]]

\* new Map(arr.map((u) => [u.id, u])) over the first n objects of h.
RECURSIVE MapFromObjects(_, _)
MapFromObjects(h, n) ==
    IF n = 0 THEN EmptyMap ELSE MapSet(MapFromObjects(h, n - 1), h[n].id, n)

\* updateUser: `{ ...existing, ...patch }` is a new object; the old one is
\* left as it was.
UpdatedInPlace(h, existing, patch) ==
    [heap |-> [h EXCEPT ![existing] = Merged(h[existing], patch)], obj |-> existing]
UpdatedObject(h, existing, patch) ==
    [heap |-> Append(h, Merged(h[existing], patch)), obj |-> Len(h) + 1]

HeapInit == \E f \in InitFiles : Start("heap", f, MaxFaults)

HeapStep(o, v) ==
    /\ impl = "heap"
    /\ loadPc = "done"
    /\ nCalls < MaxOps
    /\ nCalls' = nCalls + 1
    /\ result' = Settled(o, v, FALSE)
    /\ UNCHANGED <<impl, file0, users, loadVars, callVars, faults, ref, lastDeleted,
                   mem, memNextId, memCall>>

\* persist() run to its end.
HeapPersist == file' = WrittenText(Deref(heap', SnapshotOf(hmap')))

\* load() run to its end.
HeapLoad ==
    /\ impl = "heap"
    /\ loadPc = "readFile"
    /\ loadPc' = "done"
    /\ ready' = "resolved"
    /\ logged' = (file.kind = "corrupt")
    /\ heap' = file.arr
    /\ hmap' = MapFromObjects(file.arr, Len(file.arr))
    /\ file' = IF file.kind = "absent" THEN WrittenText(Deref(heap, SnapshotOf(hmap)))
               ELSE file
    /\ UNCHANGED <<impl, file0, users, loadArr, callVars, nextId, nCalls, faults,
                   result, ref, lastDeleted, mem, memNextId, memCall, held, heldVal>>

HeapGetUser(i) ==
    /\ HeapStep("getUser",
                IF MapHas(hmap, i) THEN RetUser(heap[MapGet(hmap, i)]) ELSE Undefined)
    /\ UNCHANGED <<heap, hmap, held, heldVal, file, nextId>>

HeapGetUserByUsername(n) ==
    /\ HeapStep("getUserByUsername",
                OptUser(FindByUsername(Deref(heap, MapValues(hmap)), n)))
    /\ UNCHANGED <<heap, hmap, held, heldVal, file, nextId>>

HeapCreateUser(u) ==
    /\ nextId <= MaxIds
    /\ LET id == randomUUID(nextId)
           user == Len(heap) + 1
       IN  /\ heap' = Append(heap, NewUser(u, id))
           /\ hmap' = MapSet(hmap, id, user)
           /\ HeapPersist
           /\ HeapStep("createUser", RetUser(heap'[user]))
    /\ nextId' = nextId + 1
    /\ UNCHANGED <<held, heldVal>>

HeapUpdateUser(i, patch) ==
    /\ IF UpdateFinds(hmap, i)
       THEN LET updated == UpdatedObject(heap, MapGet(hmap, i), patch)
            IN  /\ heap' = updated.heap
                /\ hmap' = MapSet(hmap, i, updated.obj)
                /\ HeapPersist
                /\ HeapStep("updateUser", RetUser(heap'[updated.obj]))
       ELSE /\ HeapStep("updateUser", Undefined)
            /\ UNCHANGED <<heap, hmap, file>>
    /\ UNCHANGED <<held, heldVal, nextId>>

HeapDeleteUser(i) ==
    /\ hmap' = DeleteFrom(hmap, i)
    /\ heap' = heap
    /\ IF MapHas(hmap, i) THEN HeapPersist ELSE file' = file
    /\ HeapStep("deleteUser", RetBool(MapHas(hmap, i)))
    /\ UNCHANGED <<held, heldVal, nextId>>

\* listUsers: Array.from(this.users.values()) is a new array of the Map's
\* objects; the caller holds it from then on.
HeapListUsers ==
    /\ held' = SnapshotOf(hmap)
    /\ heldVal' = Deref(heap, held')
    /\ HeapStep("listUsers", RetList(heldVal'))
    /\ UNCHANGED <<heap, hmap, file, nextId>>

HeapNext ==
    \/ HeapLoad
    \/ \E i \in Targets : HeapGetUser(i)
    \/ \E n \in Names : HeapGetUserByUsername(n)
    \/ \E u \in InsertUsers : HeapCreateUser(u)
    \/ \E i \in Targets : \E d \in Patches : HeapUpdateUser(i, d)
    \/ \E i \in Targets : HeapDeleteUser(i)
    \/ HeapListUsers

HeapSpec == HeapInit /\ [][HeapNext]_vars

\* ------------------------------------------------------- steps, as seen from outside
AllIdle == \A p \in Procs : pc[p] = "idle"
\* The body of call p runs in this step.
BodyRuns(p) == pc[p] = "waitReady" /\ pc'[p] # "waitReady"
\* Call p returns in this step after its write.
Returns(p) == pc[p] = "written" /\ pc'[p] = "idle"
\* persist() of call p rejects in this step.
Faulted(p) == pc[p] \in {"mkdir", "writeFile"} /\ pc'[p] = "idle"
\* A MemStorage method o runs in this step.
MemRuns(o) ==
    impl \in {"mem", "both"} /\ nCalls' = nCalls + 1 /\ pc' = pc /\ result'.op = o
\* The settled call mutated the collection and returned.
Mutated(r) == r.op \in Mutators /\ r.kind \in {"user", "true"}
\* Same keys, same values, as maps.
SameEntries(m1, m2) ==
    /\ MapKeys(m1) = MapKeys(m2)
    /\ \A k \in MapKeys(m1) : MapGet(m1, k) = MapGet(m2, k)

\* ------------------------------------------------------- claims

\* C1: after any sequence of createUser/updateUser/deleteUser, the records of
\* the store (and so what listUsers() returns) are, as a set, the records of
\* the reference map on which the same sequence was replayed.
C1_ListMatchesReference ==
    /\ impl = "mem" => ValueSet(mem) = RefRange(ref)
    /\ (impl = "file" /\ ready = "resolved") => ValueSet(users) = RefRange(ref)
    /\ (AllIdle /\ result.op = "listUsers") => SeqToSet(result.val) = RefRange(ref)

C1_Witness ==
    /\ impl = "file"
    /\ AllIdle
    /\ result.op = "listUsers"
    /\ nextId = 2
    /\ result.val # <<>>
    /\ result.val[Len(result.val)].id = randomUUID(1)

\* C2: a FileStorage mutating call that overlaps no other mutating call and
\* returns a result returns from the state reached when its writeFile
\* completed, and at that moment the records in the file are the records in
\* memory.
C2_ReturnAfterWrite ==
    [][\A p \in Procs :
        (pc[p] # "idle" /\ pc'[p] = "idle" /\ Mutated(result'))
            => /\ pc[p] = "written"
               /\ ~overl[p] => FileInSync(file', users')]_vars

C2_Witness ==
    /\ impl = "file"
    /\ AllIdle
    /\ result.op = "updateUser"
    /\ result.kind = "user"
    /\ ~result.overl
    /\ Len(users) = 2
    /\ FileInSync(file, users)

\* C3 (as claimed): once overlapping mutating calls have all returned
\* successfully, the file holds exactly the records of memory, whatever order
\* the writes landed in.
C3_OverlapConverges ==
    (AllIdle /\ faults = 0 /\ Mutated(result) /\ result.overl)
        => FileInSync(file, users)

\* C4: the body of a FileStorage call runs only once load() has finished; the
\* collection changes before that only by load(); load() is started once and
\* its position only moves forward.
C4_WaitForSingleLoad ==
    [][/\ \A p \in Procs : BodyRuns(p) => (loadPc = "done" /\ ready = "resolved")
       /\ (loadPc # "done" /\ users' # users) => (pc' = pc /\ loadPc' = "done")
       /\ loadPc # "readFile" => loadPc' # "readFile"
       /\ loadPc = "done" => (loadPc' = "done" /\ ready' = ready)]_vars

C4_Witness ==
    /\ loadPc = "writeFile"
    /\ pc[1] = "waitReady" /\ op[1] = "createUser"
    /\ pc[2] = "waitReady" /\ op[2] = "listUsers"
    /\ users = EmptyMap

\* C5: when load() fails (unreadable or unparsable file, or a failed bootstrap
\* write), ready resolves, the collection is empty at that moment, and every
\* call is eventually served.
C5_DegradesToEmpty ==
    /\ [][(~logged /\ logged') => (ready' = "resolved" /\ users' = EmptyMap)]_vars
    /\ [](logged => ready = "resolved")
    /\ <>(ready = "resolved")
    /\ \A p \in Procs : (pc[p] # "idle") ~> (pc[p] = "idle")

C5_Witness ==
    /\ logged
    /\ file0 = Corrupt
    /\ AllIdle
    /\ result.op = "createUser" /\ result.kind = "user"
    /\ FileInSync(file, users)

\* C6 (as claimed): when persist() of a mutating call fails, the call rejects,
\* the mutation stays in memory, and memory and the file differ.
C6_FailedWriteDiverges ==
    [][\A p \in Procs :
        Faulted(p) => /\ result'.kind = "error"
                      /\ users' = users
                      /\ ~FileInSync(file', users')]_vars

\* C6 (amended): when persist() of a mutating call fails, the call rejects and
\* the mutation stays in memory (for a call that overlapped no other, memory
\* is still what persist() copied); memory and the file differ if the call
\* overlapped no other, the file agreed with memory before the mutation and
\* the mutation changed the set of records.
C6_FailedWriteKeepsMutation ==
    [][\A p \in Procs :
        Faulted(p) => /\ result'.kind = "error"
                      /\ users' = users
                      /\ ~overl[p] => MapValues(users') = arr[p]
                      /\ (~overl[p] /\ changed[p]) => ~FileInSync(file', users')]_vars

C6_Witness ==
    /\ AllIdle
    /\ result.op = "createUser" /\ result.kind = "error"
    /\ faults = 1
    /\ MapHas(users, randomUUID(1))
    /\ file.kind = "json"
    /\ ~FileInSync(file, users)

C8_UpdateKeepsId ==
    [][/\ \A p \in Procs :
            (BodyRuns(p) /\ op[p] = "updateUser" /\ MapHas(users, arg[p].id))
                => LET old == MapGet(users, arg[p].id)
                       new == MapGet(users', arg[p].id)
                   IN  /\ new.id = old.id
                       /\ \A f \in Fields \ {"id"} :
                            new[f] = IF f \in DOMAIN arg[p].data
                                     THEN arg[p].data[f] ELSE old[f]
                       /\ ret'[p] = RetUser(new)
       /\ \A i \in 1..Len(users') : users'[i][2].id = users'[i][1]
       /\ \A i \in 1..Len(mem') : mem'[i][2].id = mem'[i][1]]_vars

C10_DeleteIdempotent ==
    [][/\ \A p \in Procs :
            (BodyRuns(p) /\ op[p] = "deleteUser")
                => /\ MapHas(users, arg[p].id)
                        => /\ SameEntries(users', MapDelete(users, arg[p].id))
                           /\ MapKeys(users') = MapKeys(users) \ {arg[p].id}
                           /\ ret'[p] = RetBool(TRUE)
                           /\ pc'[p] = "mkdir"
                   /\ ~MapHas(users, arg[p].id)
                        => /\ pc'[p] = "idle"
                           /\ result'.kind = "false"
                           /\ users' = users
                           /\ file' = file
                   /\ lastDeleted = arg[p].id => ~MapHas(users, arg[p].id)
       /\ \A p \in Procs : (Returns(p) /\ op[p] = "deleteUser") => result'.kind = "true"
       /\ MemRuns("deleteUser")
            => /\ result'.kind = "true"
                    => /\ MapKeys(mem') = MapKeys(mem) \ {lastDeleted'}
                       /\ MapHas(mem, lastDeleted')
                       /\ \A k \in MapKeys(mem') : MapGet(mem', k) = MapGet(mem, k)
               /\ result'.kind = "false" => (mem' = mem /\ ~MapHas(mem, lastDeleted'))
               /\ result'.kind \in {"true", "false"}
               /\ lastDeleted = lastDeleted' => (result'.kind = "false" /\ mem' = mem)]_vars

C10_Witness ==
    /\ impl = "file"
    /\ file0 = Json(<<Old1>>)
    /\ AllIdle
    /\ nCalls = 2
    /\ lastDeleted = OldId
    /\ result = Settled("deleteUser", RetBool(FALSE), FALSE)
    /\ users = EmptyMap
    /\ file = Json(<<>>)

\* C11: every createUser adds exactly one entry under an id that is not a key
\* of the collection, was not returned by an earlier createUser (overlapping
\* or not, deleted since or not) and was not an id of the file the store
\* started from; the entries already there stay as they are.
IdsOfFile(f) == {f.arr[i].id : i \in 1..Len(f.arr)}
Issued(n) == {randomUUID(k) : k \in 1..(n - 1)}
AddsOneEntry(m, m2, u, n) ==
    /\ u.id \notin MapKeys(m) \cup Issued(n) \cup IdsOfFile(file0)
    /\ Len(m2) = Len(m) + 1
    /\ MapKeys(m2) = MapKeys(m) \cup {u.id}
    /\ MapGet(m2, u.id) = u
    /\ \A k \in MapKeys(m) : MapGet(m2, k) = MapGet(m, k)
C11_CreateAddsFreshId ==
    [][/\ \A p \in Procs :
            (BodyRuns(p) /\ op[p] = "createUser")
                => /\ ret'[p].kind = "user"
                   /\ AddsOneEntry(users, users', ret'[p].val[1], nextId)
       /\ MemRuns("createUser")
            => /\ result'.kind = "user"
               /\ AddsOneEntry(mem, mem', result'.val[1], memNextId)]_vars

C11_Witness ==
    /\ impl = "file"
    /\ file0 = Json(<<Old1>>)
    /\ AllIdle
    /\ result.op = "createUser" /\ result.kind = "user" /\ result.overl
    /\ MapKeys(users) = {OldId, randomUUID(1), randomUUID(2)}
    /\ MapGet(users, OldId) = Old1

\* C12: when load() has read a file, every id of the file is the id of exactly
\* one record of the collection, the one that comes last in the file with
\* that id; listUsers() returns the records of the collection.
LastInFile(f, k) ==
    f.arr[CHOOSE i \in 1..Len(f.arr) :
            /\ f.arr[i].id = k
            /\ \A j \in (i + 1)..Len(f.arr) : f.arr[j].id # k]
C12_DuplicateIdsLastWins ==
    [][/\ (loadPc = "readFile" /\ loadPc' = "done" /\ ~logged')
            => /\ Len(users') = Cardinality(IdsOfFile(file))
               /\ \A k \in IdsOfFile(file) :
                    /\ Cardinality({i \in 1..Len(users') : users'[i][2].id = k}) = 1
                    /\ MapHas(users', k)
                    /\ MapGet(users', k) = LastInFile(file, k)
       /\ \A p \in Procs :
            (BodyRuns(p) /\ op[p] = "listUsers")
                => (result'.kind = "list" /\ result'.val = MapValues(users))]_vars

C12_Witness ==
    /\ file0 = Json(<<Old1, Old2>>)
    /\ ~logged
    /\ AllIdle
    /\ nCalls = 1
    /\ result.op = "listUsers"
    /\ result.val = <<Old2>>

\* C13 (as claimed): writing the collection out as persist() does and reading
\* it back as load() does gives the same collection: the same records, each
\* under the same id.
Reloaded(m) == MapFromUsers(WrittenText(SnapshotOf(m)).arr)
C13_RoundTrip ==
    (impl = "file" /\ ready = "resolved") => SameEntries(Reloaded(users), users)

\* C14: with a MemStorage and a FileStorage started empty on a disk that does
\* not fail and given the same operations and the same ids, every FileStorage
\* call returns what the MemStorage call returned, the two collections are
\* then equal (same entries, same order), and a mutation that returned is on
\* disk.
C14_Interchangeable ==
    [][\A p \in Procs :
        (impl = "both" /\ pc[p] # "idle" /\ pc'[p] = "idle")
            => /\ result'.kind # "error"
               /\ result' = result
               /\ users' = mem'
               /\ Mutated(result') => FileInSync(file', users')]_vars

C14_Witness ==
    /\ impl = "both"
    /\ AllIdle
    /\ nCalls = 2 * MaxOps
    /\ result.op = "deleteUser" /\ result.kind = "true"
    /\ memNextId = 3 /\ nextId = 3
    /\ MapKeys(mem) = {randomUUID(2)}
    /\ users = mem
    /\ FileInSync(file, users)

\* C15: getUserByUsername(name) returns a record of the collection whose
\* username is name when there is one (wherever it was inserted, and when
\* several have that username) and undefined when there is none; it changes
\* nothing.
Finds(m, name, r) ==
    IF \E u \in ValueSet(m) : u.username = name
    THEN /\ r.kind = "user"
         /\ r.val[1].username = name
         /\ r.val[1] \in ValueSet(m)
    ELSE r.kind = "undefined"
C15_FindsByUsername ==
    [][/\ \A p \in Procs :
            (BodyRuns(p) /\ op[p] = "getUserByUsername")
                => /\ pc'[p] = "idle"
                   /\ Finds(users, arg[p].data.username, result')
                   /\ users' = users /\ file' = file
       /\ MemRuns("getUserByUsername")
            => /\ Finds(mem, memCall'.arg.data.username, result')
               /\ mem' = mem]_vars

C15_Witness ==
    /\ impl = "both"
    /\ AllIdle
    /\ result.op = "getUserByUsername" /\ result.kind = "user"
    /\ Len(users) = 2
    /\ users[1][2].username = "bob"
    /\ users[2][2].username = "bob"
    /\ result.val[1].username = "bob"

\* C16: the array listUsers() returned keeps its elements and their field
\* values whatever the store does afterwards (no later call changes an
\* object it holds, and only listUsers() hands out a new array);
\* listUsers() returns the records of the collection and changes neither the
\* collection nor the file.
HeapRuns(o) == impl = "heap" /\ nCalls' = nCalls + 1 /\ result'.op = o
C16_ListIsSnapshot ==
    [][/\ Deref(heap', held') = heldVal'
       /\ held' # held => HeapRuns("listUsers")
       /\ HeapRuns("listUsers")
            => /\ result'.val = Deref(heap, MapValues(hmap))
               /\ hmap' = hmap /\ heap' = heap /\ file' = file]_vars

C16_Witness ==
    /\ impl = "heap"
    /\ file0 = Json(<<Old1>>)
    /\ heldVal = <<Old1>>
    /\ result.op = "updateUser" /\ result.kind = "user"
    /\ Deref(heap, MapValues(hmap)) = <<[Old1 EXCEPT !.username = "bob"]>>
    /\ file = Json(<<[Old1 EXCEPT !.username = "bob"]>>)

\* C17: the body of a FileStorage updateUser or deleteUser acts in one step
\* on the collection as it is then, whatever other calls are in flight:
\* updateUser on an id that is not (or no longer) there inserts nothing;
\* on an id that is there it overwrites the patch's fields in the current
\* record, so the fields changed by an overlapping update that ran before
\* are kept; deleteUser removes the entry; no other entry changes.
PastBody(q) == pc[q] \in {"mkdir", "writeFile", "written"}
OthersKept(m, m2, k) ==
    \A j \in MapKeys(m) \ {k} : MapHas(m2, j) /\ MapGet(m2, j) = MapGet(m, j)
MergedInto(old, patch, new) ==
    /\ DOMAIN new = DOMAIN old \cup DOMAIN patch
    /\ \A f \in DOMAIN new : new[f] = IF f \in DOMAIN patch THEN patch[f] ELSE old[f]
C17_BodiesAreAtomic ==
    [][\A p \in Procs :
        /\ (BodyRuns(p) /\ op[p] = "updateUser" /\ ~MapHas(users, arg[p].id))
                => (users' = users /\ pc'[p] = "idle")
        /\ (BodyRuns(p) /\ op[p] = "updateUser" /\ MapHas(users, arg[p].id))
                => /\ MapKeys(users') = MapKeys(users)
                   /\ OthersKept(users, users', arg[p].id)
                   /\ MergedInto(MapGet(users, arg[p].id), arg[p].data,
                                 MapGet(users', arg[p].id))
                   /\ \A q \in Procs \ {p} :
                        (PastBody(q) /\ op[q] = "updateUser"
                            /\ ret[q] = RetUser(MapGet(users, arg[p].id)))
                        => MergedInto(ret[q].val[1], arg[p].data,
                                      MapGet(users', arg[p].id))
        /\ (BodyRuns(p) /\ op[p] = "deleteUser")
                => /\ MapKeys(users') = MapKeys(users) \ {arg[p].id}
                   /\ OthersKept(users, users', arg[p].id)]_vars

C17_Witness ==
    /\ impl = "file"
    /\ file0 = Json(<<Old1>>)
    /\ PastBody(1) /\ op[1] = "updateUser"
    /\ PastBody(2) /\ op[2] = "updateUser"
    /\ ret[1] = RetUser([Old1 EXCEPT !.username = "bob"])
    /\ ret[2] = RetUser([Old1 EXCEPT !.username = "bob", !.password = "h2"])
    /\ MapGet(users, OldId) = ret[2].val[1]

\* C18: a registration that overlaps no other creates a record only when no
\* record of the collection has its username, and answers 409 without
\* creating when one has; createUser itself adds the record whether or not
\* the username is already there, so overlapping registrations that both
\* looked up before either created leave two records with one username.
TakenIn(m, name) == \E u \in ValueSet(m) : u.username = name
C18_LookupThenCreate ==
    [][\A p \in Procs :
        /\ (pc[p] = "createWait" /\ pc'[p] # "createWait")
                => /\ Len(users') = Len(users) + 1
                   /\ users'[Len(users')][2].username = arg[p].data.username
                   /\ ~overl[p] => ~TakenIn(users, arg[p].data.username)
        /\ (BodyRuns(p) /\ op[p] = "register" /\ TakenIn(users, arg[p].data.username))
                => /\ result' = Settled("register", Conflict, overl[p])
                   /\ pc'[p] = "idle"
                   /\ users' = users]_vars

C18_Witness ==
    /\ AllIdle
    /\ result.op = "register" /\ result.kind = "created" /\ result.overl
    /\ faults = 0
    /\ Len(users) = 2
    /\ users[1][2].username = "alice"
    /\ users[2][2].username = "alice"
    /\ FileInSync(file, users)

\* C19: when load() gave up on a file that exists (unreadable or not
\* parsable), the file is left as it is, by that step and by every step but
\* the fs.writeFile of a mutating call; memory then holds only records
\* created since, so a write that succeeds replaces the whole file by such
\* records: for a call that overlapped no other, by exactly the records of
\* memory, none of them a record of the old file.
Degraded == logged /\ file0.kind # "absent"
KeyedById(m) == \A i \in 1..Len(m) : m[i][2].id = m[i][1]
C19_DegradedLoadThenOverwrite ==
    [][/\ (~logged /\ logged' /\ file0.kind # "absent")
            => (file' = file /\ users' = EmptyMap)
       /\ (Degraded /\ file' # file)
            => \E p \in Procs : pc[p] = "writeFile" /\ pc'[p] \in {"written", "idle"}
       /\ Degraded => MapKeys(users') \subseteq Issued(nextId')
       /\ \A p \in Procs :
            (Degraded /\ pc[p] = "writeFile" /\ pc'[p] = "written")
                => /\ file' = Json(arr[p])
                   /\ Len(arr[p]) < nextId
                   /\ ~overl[p] => SeqToSet(file'.arr) = ValueSet(users')
                   /\ (~overl[p] /\ KeyedById(users))
                        => SeqToSet(file'.arr) \cap SeqToSet(file0.arr) = {}]_vars

C19_Witness ==
    /\ file0 = Json(<<Old1>>)
    /\ logged
    /\ AllIdle
    /\ nCalls = 1
    /\ result.op = "createUser" /\ result.kind = "user"
    /\ file.kind = "json"
    /\ SeqToSet(file.arr) = ValueSet(users)
    /\ MapKeys(users) = {randomUUID(1)}
    /\ Old1 \notin SeqToSet(file.arr)

\* C20: the fs.writeFile of a mutating call that overlapped no other leaves
\* in the file exactly the records of memory, which are the result of every
\* mutation made so far, those of calls whose write failed included; a call
\* that settles without writing (a read, updateUser on a missing id,
\* deleteUser returning false) changes neither file nor memory, so a
\* difference between them stays.
C20_NextWriteCatchesUp ==
    [][\A p \in Procs :
        /\ (pc[p] = "writeFile" /\ pc'[p] = "written" /\ ~overl[p])
                => /\ users' = users
                   /\ FileInSync(file', users')
                   /\ SeqToSet(file'.arr) = RefRange(ref')
        /\ (BodyRuns(p) /\ pc'[p] = "idle")
                => /\ result'.kind \in {"undefined", "false", "user", "list"}
                   /\ result'.op \in Readers \cup {"updateUser", "deleteUser"}
                   /\ file' = file
                   /\ users' = users
                   /\ FileInSync(file', users') = FileInSync(file, users)]_vars

C20_Witness ==
    /\ impl = "file"
    /\ file0 = Json(<<Old1>>)
    /\ ~logged
    /\ faults = 1
    /\ AllIdle
    /\ nCalls = 2
    /\ result.op = "updateUser" /\ result.kind = "user" /\ ~result.overl
    /\ MapKeys(users) = {OldId, randomUUID(1)}
    /\ FileInSync(file, users)

====
